---- MODULE Spec2Model ----
(***************************************************************************)
(* Model of pelegm/qpyscript: the epoch rounder (datetools.py), the        *)
(* periodic timer thread CTimer (timer.py) and the discard-oldest          *)
(* PushQueue (queues.py).                                                  *)
(*                                                                         *)
(* Datetimes and timedeltas are integers: microseconds, counted from       *)
(* START_TIME for datetimes.  Python floats are IEEE-754 doubles; they are *)
(* modelled exactly, as sign * mantissa * 2^exponent with a 53 bit         *)
(* mantissa held in 15 bit limbs, because truncated_datetime computes its  *)
(* remainder in float seconds.                                             *)
(***************************************************************************)
EXTENDS Integers, Sequences, FiniteSets

\* ---------------------------------------------------------------- bounds

\* Instants, epochs and intervals are drawn on a grid of TickUs microseconds:
\* instants in -MaxTick..MaxTick ticks, epochs in 0..MaxEpochTick ticks and
\* intervals in -1..MaxIntervalTick ticks.
MaxTick == 12
MaxEpochTick == 1
MaxIntervalTick == 3
\* The largest finite iteration budget a timer is constructed with.
MaxIter == 3
\* Capacity and item range of the push queue.
MaxSize == 2
MaxItem == 3

\* ------------------------------------------------------------- constants

\* datetime.timedelta(seconds=1), in microseconds.
SECOND == 1000000
\* START_TIME, the default epoch: the origin of the model's datetimes.
START_TIME == 0
\* Precision of a Python float (C double).
DBL_MANT_DIG == 53
\* inf = float('inf'), the default number of iterations.
inf == -1

TickUs == SECOND \div 10

Abs(n) == IF n < 0 THEN -n ELSE n

\* ------------------------------------------- unbounded naturals, in limbs

\* A limb holds 15 bits, so that a product of two limbs fits a 32 bit integer.
LimbBase == 2^15

RECURSIVE BitLenSmall(_)
BitLenSmall(n) == IF n = 0 THEN 0 ELSE 1 + BitLenSmall(n \div 2)

LimbBits == BitLenSmall(LimbBase) - 1

Tl(a) == IF a = <<>> THEN <<>> ELSE Tail(a)
Hd(a) == IF a = <<>> THEN 0 ELSE Head(a)

RECURSIVE BigNorm(_)
BigNorm(a) ==
    IF a = <<>> THEN <<>>
    ELSE IF a[Len(a)] = 0 THEN BigNorm(SubSeq(a, 1, Len(a) - 1))
    ELSE a

RECURSIVE BigFromInt(_)
BigFromInt(n) ==
    IF n = 0 THEN <<>>
    ELSE <<n % LimbBase>> \o BigFromInt(n \div LimbBase)

RECURSIVE BigToInt(_)
BigToInt(a) ==
    IF a = <<>> THEN 0 ELSE Head(a) + LimbBase * BigToInt(Tail(a))

RECURSIVE BigCmpAt(_, _, _)
BigCmpAt(a, b, i) ==
    IF i = 0 THEN 0
    ELSE IF a[i] # b[i] THEN (IF a[i] < b[i] THEN -1 ELSE 1)
    ELSE BigCmpAt(a, b, i - 1)

BigCmp(a, b) ==
    IF Len(a) # Len(b) THEN (IF Len(a) < Len(b) THEN -1 ELSE 1)
    ELSE BigCmpAt(a, b, Len(a))

RECURSIVE BigAddC(_, _, _)
BigAddC(a, b, c) ==
    IF a = <<>> /\ b = <<>> THEN (IF c = 0 THEN <<>> ELSE <<c>>)
    ELSE LET x == Hd(a) + Hd(b) + c
         IN  <<x % LimbBase>> \o BigAddC(Tl(a), Tl(b), x \div LimbBase)

BigAdd(a, b) == BigNorm(BigAddC(a, b, 0))

RECURSIVE BigSubB(_, _, _)
BigSubB(a, b, br) ==
    IF a = <<>> THEN <<>>
    ELSE LET x == Head(a) - Hd(b) - br
         IN  <<IF x < 0 THEN x + LimbBase ELSE x>>
                 \o BigSubB(Tail(a), Tl(b), IF x < 0 THEN 1 ELSE 0)

\* a - b, for a >= b
BigSub(a, b) == BigNorm(BigSubB(a, b, 0))

RECURSIVE BigMulSmall(_, _, _)
BigMulSmall(a, c, carry) ==
    IF a = <<>> THEN BigFromInt(carry)
    ELSE LET x == Head(a) * c + carry
         IN  <<x % LimbBase>> \o BigMulSmall(Tail(a), c, x \div LimbBase)

RECURSIVE BigMul(_, _)
BigMul(a, b) ==
    IF b = <<>> THEN <<>>
    ELSE BigNorm(BigAddC(BigMulSmall(a, Head(b), 0), <<0>> \o BigMul(a, Tail(b)), 0))

RECURSIVE BigDivSmallAt(_, _, _, _, _)
BigDivSmallAt(a, d, i, rem, acc) ==
    IF i = 0 THEN acc
    ELSE LET x == rem * LimbBase + a[i]
         IN  BigDivSmallAt(a, d, i - 1, x % d, <<x \div d>> \o acc)

\* a * 2^k
BigShl(a, k) ==
    IF a = <<>> THEN <<>>
    ELSE [i \in 1..(k \div LimbBits) |-> 0]
             \o BigNorm(BigMulSmall(a, 2^(k % LimbBits), 0))

\* floor(a / 2^k)
BigShr(a, k) ==
    LET drop == k \div LimbBits
        rest == IF drop >= Len(a) THEN <<>> ELSE SubSeq(a, drop + 1, Len(a))
    IN  BigNorm(BigDivSmallAt(rest, 2^(k % LimbBits), Len(rest), 0, <<>>))

\* a mod 2^k
BigLowBits(a, k) == BigSub(a, BigShl(BigShr(a, k), k))

BigBitLen(a) ==
    IF a = <<>> THEN 0
    ELSE LimbBits * (Len(a) - 1) + BitLenSmall(a[Len(a)])

BigOdd(a) == a # <<>> /\ a[1] % 2 = 1

\* ------------------------------------------------------- Python floats

\* A float is s * m * 2^e with m = 0 or 2^52 <= m < 2^53.
FloatZero == [s |-> 1, m |-> <<>>, e |-> 0]
IsZero(x) == x.m = <<>>

\* s * (m + f) * 2^e rounded to the nearest float, ties to even, where
\* 0 < f < 1 when sticky and f = 0 otherwise.
FloatRound(s, m, e, sticky) ==
    LET nb == BigBitLen(m)
    IN  IF nb = 0 THEN FloatZero
        ELSE IF nb <= DBL_MANT_DIG
        THEN [s |-> s, m |-> BigShl(m, DBL_MANT_DIG - nb), e |-> e - (DBL_MANT_DIG - nb)]
        ELSE LET k    == nb - DBL_MANT_DIG
                 q    == BigShr(m, k)
                 r    == BigLowBits(m, k)
                 half == BigShl(<<1>>, k - 1)
                 c    == BigCmp(r, half)
                 up   == c = 1 \/ (c = 0 /\ (sticky \/ BigOdd(q)))
                 q1   == IF up THEN BigAdd(q, <<1>>) ELSE q
             IN  IF BigBitLen(q1) > DBL_MANT_DIG
                 THEN [s |-> s, m |-> BigShr(q1, 1), e |-> e + k + 1]
                 ELSE [s |-> s, m |-> q1, e |-> e + k]

RECURSIVE BigModSmallAt(_, _, _, _)
BigModSmallAt(a, d, i, rem) ==
    IF i = 0 THEN rem
    ELSE BigModSmallAt(a, d, i - 1, (rem * LimbBase + a[i]) % d)

RECURSIVE TrailingZeros(_)
TrailingZeros(d) == IF d % 2 = 1 THEN 0 ELSE 1 + TrailingZeros(d \div 2)

\* n / d of two integers, correctly rounded: Python's true division.  d > 0,
\* and d is 2^t * odd with odd < LimbBase: the quotient is taken by the odd
\* factor, and the power of two goes to the exponent.
TrueDivide(n, d) ==
    LET t   == TrailingZeros(d)
        odd == d \div 2^t
        k   == DBL_MANT_DIG + LimbBits + 2
        num == BigShl(BigFromInt(Abs(n)), k)
        quo == BigNorm(BigDivSmallAt(num, odd, Len(num), 0, <<>>))
        rem == BigModSmallAt(num, odd, Len(num), 0)
    IN  IF n = 0 THEN FloatZero
        ELSE FloatRound(IF n < 0 THEN -1 ELSE 1, quo, -(k + t), rem # 0)

FloatFromInt(n) == TrueDivide(n, 1)

\* |x| < |y| for non-zero y
FloatAbsLess(x, y) ==
    IsZero(x) \/ x.e < y.e \/ (x.e = y.e /\ BigCmp(x.m, y.m) < 0)

RECURSIVE FmodLoop(_, _, _)
FmodLoop(r, y, k) ==
    LET r1 == IF BigCmp(r, y) >= 0 THEN BigSub(r, y) ELSE r
    IN  IF k = 0 \/ r1 = <<>> THEN r1
        ELSE FmodLoop(BigNorm(BigMulSmall(r1, 2, 0)), y, k - 1)

\* C fmod: the exact remainder of x / y, with the sign of x (y # 0).
fmod(x, y) ==
    IF FloatAbsLess(x, y) THEN x
    ELSE FloatRound(x.s, FmodLoop(x.m, y.m, x.e - y.e), y.e, FALSE)

\* x + y, correctly rounded
float_add(x, y) ==
    IF IsZero(x) THEN y
    ELSE IF IsZero(y) THEN x
    ELSE LET e  == IF x.e < y.e THEN x.e ELSE y.e
             a  == BigShl(x.m, x.e - e)
             b  == BigShl(y.m, y.e - e)
             c  == BigCmp(a, b)
         IN  IF x.s = y.s THEN FloatRound(x.s, BigAdd(a, b), e, FALSE)
             ELSE IF c = 0 THEN FloatZero
             ELSE IF c > 0 THEN FloatRound(x.s, BigSub(a, b), e, FALSE)
             ELSE FloatRound(y.s, BigSub(b, a), e, FALSE)

\* x * y, correctly rounded
float_mul(x, y) == FloatRound(x.s * y.s, BigMul(x.m, y.m), x.e + y.e, FALSE)

\* C modf: the integral and the fractional part, each with the sign of x
modf(x) ==
    IF x.e >= 0 THEN [int |-> x, frac |-> FloatZero]
    ELSE [int  |-> FloatRound(x.s, BigShr(x.m, -x.e), 0, FALSE),
          frac |-> FloatRound(x.s, BigLowBits(x.m, -x.e), x.e, FALSE)]

\* the integer an integral float holds
FloatToInt(x) ==
    x.s * BigToInt(IF x.e >= 0 THEN BigShl(x.m, x.e) ELSE BigShr(x.m, -x.e))

\* Python's float %: fmod, then moved to the sign of the divisor (wx # 0).
float_rem(vx, wx) ==
    LET mod == fmod(vx, wx)
    IN  IF ~IsZero(mod) /\ ((wx.s < 0) # (mod.s < 0)) THEN float_add(mod, wx)
        ELSE mod

\* round_to_long of Python 2's datetime (the repository is Python 2: it imports
\* Queue): floor(x + 0.5) for x >= 0, ceil(x - 0.5) below
round_to_long(x) ==
    LET half == TrueDivide(1, 2)
        up   == modf(float_add([x EXCEPT !.s = 1], half)).int
    IN  x.s * FloatToInt([up EXCEPT !.s = 1])

\* datetime.timedelta(seconds=x) for a float x, in microseconds
timedelta_seconds(x) ==
    LET p     == modf(x)
        whole == FloatToInt(p.int) * SECOND
        p2    == modf(float_mul(FloatFromInt(SECOND), p.frac))
    IN  IF IsZero(p.frac) THEN whole
        ELSE whole + FloatToInt(p2.int)
                 + (IF IsZero(p2.frac) THEN 0 ELSE round_to_long(p2.frac))

\* timedelta.total_seconds() of a timedelta of td microseconds
td_total_seconds(td) == TrueDivide(td, SECOND)

\* ----------------------------------------------------------- datetools.py

total_seconds(dt, start) == td_total_seconds(dt - start)

\* [ok |-> FALSE] stands for the ZeroDivisionError of "float modulo".
truncated_datetime(dt, delta, start) ==
    IF delta = 0 THEN [ok |-> FALSE, val |-> 0]
    ELSE [ok  |-> TRUE,
          val |-> dt - timedelta_seconds(
                           float_rem(total_seconds(dt, start), td_total_seconds(delta)))]

Instants  == {START_TIME + k * TickUs : k \in -MaxTick..MaxTick}
Epochs    == {START_TIME + k * TickUs : k \in 0..MaxEpochTick}
Intervals == {k * TickUs : k \in -1..MaxIntervalTick}

\* functools.partial(truncated_datetime, delta=delta, start=start)
datetime_rounder(delta, start) ==
    [dt \in Instants |-> truncated_datetime(dt, delta, start)]


\* ------------------------------------------------------------------ state

VARIABLES
    \* CTimer fields
    interval,       \* self.interval, a timedelta
    rounder,        \* self.rounder
    iterations,     \* self.iterations
    stop_flag,      \* self._stop_flag
    \* the thread: threading.Thread's life cycle and the frame of run()
    state,          \* "Idle" (not started), "Running" (alive), "Stopped"
    pc,             \* where run() stands
    counter,        \* run's counter
    now,            \* run's now
    delta,          \* run's delta, a timedelta
    \* history
    budget,         \* the iterations argument of the constructor
    epoch,          \* the start argument of the constructor
    wait,           \* what the last sleep was asked to sleep
    invoked,        \* do() calls begun
    active,         \* do() calls begun and not yet ended
    died,           \* the exception that ended run(), "" if none
    spawned,        \* threads of control spawned by start()
    start_error,    \* a start() call raised RuntimeError
    stop_wake,      \* the cycle whose sleep first ended with the flag set, or -1
    stop_early,     \* stop() was called before the first end-of-cycle check
    after_stop,     \* cycles begun after a stop() call returned
    stop_invoked,   \* do() calls begun after a stop() call returned
    fired,          \* while do() runs and until the next clock read: the
                    \* deadline of the cycle that called it
    passed          \* the clock value read in this cycle is a whole interval
                    \* or more past the deadline of the cycle before

tvars == <<interval, rounder, iterations, stop_flag, state, pc, counter, now, delta,
           budget, epoch, wait, invoked, active, died, spawned, start_error,
           stop_wake, stop_early, after_stop, stop_invoked, fired, passed>>

VARIABLES
    rdt, rdelta, rstart,    \* the arguments dt, delta and start of a call
    rres,                   \* what truncated_datetime returned for them
    rres2,                  \* what it returned for its own result
    rpc                     \* "call", "done", "again"

rvars == <<rdt, rdelta, rstart, rres, rres2, rpc>>

VARIABLES
    maxsize,        \* Queue.maxsize
    queue,          \* Queue.queue, the oldest item first
    qpc,            \* per thread: where its push() stands
    qitem,          \* per thread: the item of its push()
    qmode,          \* per thread: "nowait", "block" or "timeout"
    qsnap,          \* per thread: the queue when its push() was called
    qdrop,          \* per thread: the items its push() has removed so far
    qfound          \* per thread: the queue was full when its push() was called

qvars == <<maxsize, queue, qpc, qitem, qmode, qsnap, qdrop, qfound>>

\* --------------------------------------------------------------- timer.py

Budgets == 0..MaxIter \cup {inf}

\* CTimer.__init__ with interval = k / 10 seconds, k in -1..MaxIntervalTick
IntervalArgs == -1..MaxIntervalTick

TimerInitWith(k, s, n) ==
    /\ interval = timedelta_seconds(TrueDivide(k, SECOND \div TickUs))
    /\ rounder = datetime_rounder(interval, s)
    /\ iterations = n
    /\ stop_flag = FALSE
    /\ state = "Idle"
    /\ pc = "idle"
    /\ counter = 0
    /\ now = START_TIME
    /\ delta = 0
    /\ budget = n
    /\ epoch = s
    /\ wait = 0
    /\ invoked = 0
    /\ active = 0
    /\ died = ""
    /\ spawned = 0
    /\ start_error = FALSE
    /\ stop_wake = -1
    /\ stop_early = FALSE
    /\ after_stop = 0
    /\ stop_invoked = 0
    /\ fired = START_TIME
    /\ passed = FALSE

TimerInit == \E k \in IntervalArgs, s \in Epochs, n \in Budgets : TimerInitWith(k, s, n)

\* Mutant: the loop test lets the counter reach the budget.
CounterAtMost(c, n) == n = inf \/ c <= n

\* counter < self.iterations
CounterBelow(c, n) == n = inf \/ c < n

\* Mutant: start() spawns a loop whatever the state of the thread.
StartAlways ==
    /\ state' = "Running"
    /\ pc' = "test"
    /\ counter' = 0
    /\ spawned' = spawned + 1
    /\ UNCHANGED <<interval, rounder, iterations, stop_flag, now, delta, budget, epoch,
                   wait, invoked, active, died, start_error, stop_wake, stop_early,
                   after_stop>>
    /\ UNCHANGED <<stop_invoked, fired, passed>>
    /\ UNCHANGED <<rvars, qvars>>

\* Thread.start(): a thread can be started once
Start ==
    /\ state = "Idle"
    /\ state' = "Running"
    /\ pc' = "test"
    /\ counter' = 0
    /\ spawned' = spawned + 1
    /\ UNCHANGED <<interval, rounder, iterations, stop_flag, now, delta, budget, epoch,
                   wait, invoked, active, died, start_error, stop_wake, stop_early,
                   after_stop>>
    /\ UNCHANGED <<stop_invoked, fired, passed>>
    /\ UNCHANGED <<rvars, qvars>>

\* Thread.start() on a thread that was started: RuntimeError
StartRefused ==
    /\ state # "Idle"
    /\ start_error' = TRUE
    /\ UNCHANGED <<interval, rounder, iterations, stop_flag, state, pc, counter, now,
                   delta, budget, epoch, wait, invoked, active, died, spawned,
                   stop_wake, stop_early, after_stop>>
    /\ UNCHANGED <<stop_invoked, fired, passed>>
    /\ UNCHANGED <<rvars, qvars>>

\* No end-of-cycle check has run yet.
NoCheckYet == counter = 0 \/ (counter = 1 /\ pc = "check")

\* Mutant: stop() ends the loop by writing the budget itself.
StopWritesBudget ==
    /\ stop_flag' = TRUE
    /\ iterations' = 0
    /\ stop_early' = (stop_early \/ NoCheckYet)
    /\ UNCHANGED <<interval, rounder, state, pc, counter, now, delta,
                   budget, epoch, wait, invoked, active, died, spawned, start_error,
                   stop_wake, after_stop>>
    /\ UNCHANGED <<stop_invoked, fired, passed>>
    /\ UNCHANGED <<rvars, qvars>>

\* stop(): self._stop_flag = True
Stop ==
    /\ stop_flag' = TRUE
    /\ stop_early' = (stop_early \/ NoCheckYet)
    /\ UNCHANGED <<interval, rounder, iterations, state, pc, counter, now, delta,
                   budget, epoch, wait, invoked, active, died, spawned, start_error,
                   stop_wake, after_stop>>
    /\ UNCHANGED <<stop_invoked, fired, passed>>
    /\ UNCHANGED <<rvars, qvars>>

\* run() ends: by returning, or by the exception exc
Exit(exc) ==
    /\ state' = "Stopped"
    /\ pc' = "done"
    /\ died' = exc

\* Mutant: the loop tests the budget it was constructed with, not the field
\* that the end-of-cycle check sets to 0.
LoopTestCaptured ==
    /\ state = "Running" /\ pc = "test"
    /\ (budget = inf /\ ~stop_flag) => counter < MaxIter
    /\ counter < MaxIter + 2
    /\ IF CounterBelow(counter, budget)
       THEN /\ pc' = "now"
            /\ after_stop' = after_stop + (IF stop_flag THEN 1 ELSE 0)
            /\ UNCHANGED <<state, died>>
       ELSE /\ Exit("")
            /\ UNCHANGED after_stop
    /\ UNCHANGED <<interval, rounder, iterations, stop_flag, counter, now, delta, budget,
                   epoch, wait, invoked, active, spawned, start_error, stop_wake,
                   stop_early>>
    /\ UNCHANGED <<stop_invoked, fired, passed>>
    /\ UNCHANGED <<rvars, qvars>>

\* Mutant: the loop tests after its body, so that the first cycle always runs.
LoopTestAfterBody ==
    /\ state = "Running" /\ pc = "test"
    /\ (iterations = inf /\ ~stop_flag) => counter < MaxIter
    /\ IF counter = 0 \/ CounterBelow(counter, iterations)
       THEN /\ pc' = "now"
            /\ after_stop' = after_stop + (IF stop_flag THEN 1 ELSE 0)
            /\ UNCHANGED <<state, died>>
       ELSE /\ Exit("")
            /\ UNCHANGED after_stop
    /\ UNCHANGED <<interval, rounder, iterations, stop_flag, counter, now, delta, budget,
                   epoch, wait, invoked, active, spawned, start_error, stop_wake,
                   stop_early>>
    /\ UNCHANGED <<stop_invoked, fired, passed>>
    /\ UNCHANGED <<rvars, qvars>>

\* while counter < self.iterations.  An unbounded timer that nobody stops is
\* followed for MaxIter cycles.
LoopTest ==
    /\ state = "Running" /\ pc = "test"
    /\ (iterations = inf /\ ~stop_flag) => counter < MaxIter
    /\ IF CounterBelow(counter, iterations)
       THEN /\ pc' = "now"
            /\ after_stop' = after_stop + (IF stop_flag THEN 1 ELSE 0)
            /\ UNCHANGED <<state, died>>
       ELSE /\ Exit("")
            /\ UNCHANGED after_stop
    /\ UNCHANGED <<interval, rounder, iterations, stop_flag, counter, now, delta, budget,
                   epoch, wait, invoked, active, spawned, start_error, stop_wake,
                   stop_early>>
    /\ UNCHANGED <<stop_invoked, fired, passed>>
    /\ UNCHANGED <<rvars, qvars>>

\* now = self.dtfunc(); delta = self.rounder(now) + self.interval - now
ReadClock ==
    /\ state = "Running" /\ pc = "now"
    /\ \E t \in Instants :
          IF rounder[t].ok
          THEN /\ now' = t
               /\ delta' = rounder[t].val + interval - t
               /\ pc' = "sleep"
               /\ passed' = (counter >= 1 /\ t >= fired + interval)
               /\ fired' = START_TIME
               /\ UNCHANGED <<state, died>>
          ELSE /\ Exit("ZeroDivisionError")
               /\ UNCHANGED <<now, delta, fired, passed>>
    /\ UNCHANGED <<interval, rounder, iterations, stop_flag, counter, budget, epoch, wait,
                   invoked, active, spawned, start_error, stop_wake, stop_early,
                   after_stop>>
    /\ UNCHANGED stop_invoked
    /\ UNCHANGED <<rvars, qvars>>

\* max(0, interval) of CTimer.sleep, on the timedelta: total_seconds() keeps
\* the sign and the order
SleepTime(d) == IF d < 0 THEN 0 ELSE d

\* self.sleep(delta.total_seconds()) has returned
Sleep ==
    /\ state = "Running" /\ pc = "sleep"
    /\ wait' = SleepTime(delta)
    /\ pc' = "do"
    /\ stop_wake' = IF stop_flag /\ stop_wake = -1 THEN counter ELSE stop_wake
    /\ UNCHANGED <<interval, rounder, iterations, stop_flag, state, counter, now, delta,
                   budget, epoch, invoked, active, died, spawned, start_error,
                   stop_early, after_stop>>
    /\ UNCHANGED <<stop_invoked, fired, passed>>
    /\ UNCHANGED <<rvars, qvars>>

\* Mutant: do() is handed to the background and the loop goes on at once.
DoBeginAsync ==
    /\ state = "Running" /\ pc = "do"
    /\ invoked < MaxIter + 2
    /\ invoked' = invoked + 1
    /\ active' = active + 1
    /\ counter' = counter + 1
    /\ pc' = "check"
    /\ now' = START_TIME /\ delta' = 0 /\ wait' = 0
    /\ UNCHANGED <<interval, rounder, iterations, stop_flag, state, budget,
                   epoch, died, spawned, start_error, stop_wake, stop_early, after_stop>>
    /\ stop_invoked' = stop_invoked + (IF stop_flag THEN 1 ELSE 0)
    /\ fired' = now + delta
    /\ passed' = FALSE
    /\ UNCHANGED <<rvars, qvars>>

\* self.do() is called
DoBegin ==
    /\ state = "Running" /\ pc = "do"
    /\ invoked < MaxIter + 2
    /\ invoked' = invoked + 1
    /\ active' = active + 1
    /\ pc' = "doing"
    /\ now' = START_TIME /\ delta' = 0 /\ wait' = 0
    /\ UNCHANGED <<interval, rounder, iterations, stop_flag, state, counter, budget,
                   epoch, died, spawned, start_error, stop_wake, stop_early, after_stop>>
    /\ stop_invoked' = stop_invoked + (IF stop_flag THEN 1 ELSE 0)
    /\ fired' = now + delta
    /\ passed' = FALSE
    /\ UNCHANGED <<rvars, qvars>>

\* Mutant: a do() that returns is not counted.
DoReturnNotCounted ==
    /\ state = "Running" /\ pc = "doing"
    /\ active' = active - 1
    /\ pc' = "check"
    /\ UNCHANGED <<interval, rounder, iterations, stop_flag, state, counter, now, delta,
                   budget, epoch, wait, invoked, died, spawned, start_error, stop_wake,
                   stop_early, after_stop>>
    /\ UNCHANGED <<stop_invoked, fired, passed>>
    /\ UNCHANGED <<rvars, qvars>>

\* self.do() returns; counter += 1
DoReturn ==
    /\ state = "Running" /\ pc = "doing"
    /\ active' = active - 1
    /\ counter' = counter + 1
    /\ pc' = "check"
    /\ UNCHANGED <<interval, rounder, iterations, stop_flag, state, now, delta, budget,
                   epoch, wait, invoked, died, spawned, start_error, stop_wake,
                   stop_early, after_stop>>
    /\ UNCHANGED <<stop_invoked, fired, passed>>
    /\ UNCHANGED <<rvars, qvars>>

\* self.do() raises (FuncCTimer.do: the function raises): nothing in run()
\* catches it
DoRaise ==
    /\ state = "Running" /\ pc = "doing"
    /\ active' = active - 1
    /\ Exit("ActionFailure")
    /\ UNCHANGED <<interval, rounder, iterations, stop_flag, counter, now, delta, budget,
                   epoch, wait, invoked, spawned, start_error, stop_wake, stop_early,
                   after_stop>>
    /\ UNCHANGED <<stop_invoked, fired, passed>>
    /\ UNCHANGED <<rvars, qvars>>

\* Mutant: the end-of-cycle check does not look at the flag.
CheckIgnoresFlag ==
    /\ state = "Running" /\ pc = "check"
    /\ pc' = "test"
    /\ UNCHANGED <<interval, rounder, iterations, stop_flag, state, counter, now, delta,
                   budget, epoch, wait, invoked, active, died, spawned, start_error,
                   stop_wake, stop_early, after_stop>>
    /\ UNCHANGED <<stop_invoked, fired, passed>>
    /\ UNCHANGED <<rvars, qvars>>

\* Mutant: a flag seen at the end of a cycle grants one more cycle.
CheckGrantsOneMore ==
    /\ state = "Running" /\ pc = "check"
    /\ iterations' = IF stop_flag THEN counter + 1 ELSE iterations
    /\ pc' = "test"
    /\ UNCHANGED <<interval, rounder, stop_flag, state, counter, now, delta, budget,
                   epoch, wait, invoked, active, died, spawned, start_error, stop_wake,
                   stop_early, after_stop>>
    /\ UNCHANGED <<stop_invoked, fired, passed>>
    /\ UNCHANGED <<rvars, qvars>>

\* if self._stop_flag: self.iterations = 0
Check ==
    /\ state = "Running" /\ pc = "check"
    /\ iterations' = IF stop_flag THEN 0 ELSE iterations
    /\ pc' = "test"
    /\ UNCHANGED <<interval, rounder, stop_flag, state, counter, now, delta, budget,
                   epoch, wait, invoked, active, died, spawned, start_error, stop_wake,
                   stop_early, after_stop>>
    /\ UNCHANGED <<stop_invoked, fired, passed>>
    /\ UNCHANGED <<rvars, qvars>>

Run == LoopTest \/ ReadClock \/ Sleep \/ DoBegin \/ DoReturn \/ DoRaise \/ Check

\* ------------------------------------------- truncated_datetime, applied

NoResult == [ok |-> FALSE, val |-> START_TIME]

RoundInitWith(t, d, e) ==
    /\ rdt = t /\ rdelta = d /\ rstart = e
    /\ rres = NoResult /\ rres2 = NoResult
    /\ rpc = "call"

RoundInit == \E t \in Instants, d \in Intervals, e \in Epochs : RoundInitWith(t, d, e)

Truncate ==
    /\ rpc = "call"
    /\ rres' = truncated_datetime(rdt, rdelta, rstart)
    /\ rpc' = "done"
    /\ UNCHANGED <<rdt, rdelta, rstart, rres2>>
    /\ UNCHANGED <<tvars, qvars>>

TruncateAgain ==
    /\ rpc = "done" /\ rres.ok
    /\ rres2' = truncated_datetime(rres.val, rdelta, rstart)
    /\ rpc' = "again"
    /\ UNCHANGED <<rdt, rdelta, rstart, rres>>
    /\ UNCHANGED <<tvars, qvars>>

\* --------------------------------------------------------------- queues.py

NumThreads == 2
Threads == 1..NumThreads
Items == 1..MaxItem
\* The removals of one push() call are counted up to MaxDrop.
MaxDrop == 2
\* push_nowait; push(item); push(item, timeout=...) with a positive timeout
Modes == {"nowait", "block", "timeout"}

QueueInitWith(m) ==
    /\ maxsize = m
    /\ queue = <<>>
    /\ qpc = [t \in Threads |-> "idle"]
    /\ qitem = [t \in Threads |-> 0]
    /\ qmode = [t \in Threads |-> "nowait"]
    /\ qsnap = [t \in Threads |-> <<>>]
    /\ qdrop = [t \in Threads |-> 0]
    /\ qfound = [t \in Threads |-> FALSE]

QueueInit == \E m \in 1..MaxSize : QueueInitWith(m)

\* Queue._qsize() == self.maxsize, for maxsize > 0
Full(q, m) == m > 0 /\ Len(q) = m

\* Mutant: the newest item is handed out.
QGetNewest(q) == SubSeq(q, 1, Len(q) - 1)

\* Queue._get(): the queue without the item it hands out
QGet(q) == Tail(q)

\* push(item, block, timeout) is entered
PushEnter(t, item, mode) ==
    /\ qpc[t] = "idle"
    /\ qpc' = [qpc EXCEPT ![t] = "put"]
    /\ qitem' = [qitem EXCEPT ![t] = item]
    /\ qmode' = [qmode EXCEPT ![t] = mode]
    /\ qdrop' = [qdrop EXCEPT ![t] = 0]
    /\ qfound' = [qfound EXCEPT ![t] = Full(queue, maxsize)]
    /\ UNCHANGED <<maxsize, queue>>
    /\ UNCHANGED <<tvars, rvars>>

\* push(item, block, timeout) is called, and the queue it finds is recorded
PushCall(t, item, mode) ==
    /\ PushEnter(t, item, mode)
    /\ qsnap' = [qsnap EXCEPT ![t] = queue]

\* push(item, block, timeout) is called by one of several threads; thread t
\* pushes the item t, and the queue it finds is not recorded
PushCallAmong(t, mode) ==
    /\ PushEnter(t, t, mode)
    /\ UNCHANGED qsnap

\* self.put(...) finds a free slot: the item is queued, and push() breaks
PutOk(t) ==
    /\ qpc[t] = "put"
    /\ ~Full(queue, maxsize)
    /\ queue' = Append(queue, qitem[t])
    /\ qpc' = [qpc EXCEPT ![t] = "ret"]
    /\ UNCHANGED <<maxsize, qitem, qmode, qsnap, qdrop, qfound>>
    /\ UNCHANGED <<tvars, rvars>>

\* Mutant: put() raises Queue.Full on a full queue whatever block and timeout.
PutFullAlways(t) ==
    /\ qpc[t] = "put"
    /\ Full(queue, maxsize)
    /\ qpc' = [qpc EXCEPT ![t] = "get"]
    /\ UNCHANGED <<maxsize, queue, qitem, qmode, qsnap, qdrop, qfound>>
    /\ UNCHANGED <<tvars, rvars>>

\* self.put(...) raises Queue.Full: at once when block is false, after the
\* timeout when there is one; with block and no timeout it waits instead
PutFull(t) ==
    /\ qpc[t] = "put"
    /\ Full(queue, maxsize)
    /\ qmode[t] # "block"
    /\ qpc' = [qpc EXCEPT ![t] = "get"]
    /\ UNCHANGED <<maxsize, queue, qitem, qmode, qsnap, qdrop, qfound>>
    /\ UNCHANGED <<tvars, rvars>>

\* except Queue.Full: self.get_nowait(), Queue.Empty passed over
GetNowait(t) ==
    /\ qpc[t] = "get"
    /\ IF queue = <<>>
       THEN UNCHANGED <<queue, qdrop>>
       ELSE /\ queue' = QGet(queue)
            /\ qdrop' = [qdrop EXCEPT ![t] = IF @ < MaxDrop THEN @ + 1 ELSE @]
    /\ qpc' = [qpc EXCEPT ![t] = "put"]
    /\ UNCHANGED <<maxsize, qitem, qmode, qsnap, qfound>>
    /\ UNCHANGED <<tvars, rvars>>

\* push() has returned: its frame is gone
PushReturn(t) ==
    /\ qpc[t] = "ret"
    /\ qpc' = [qpc EXCEPT ![t] = "idle"]
    /\ qitem' = [qitem EXCEPT ![t] = 0]
    /\ qmode' = [qmode EXCEPT ![t] = "nowait"]
    /\ qsnap' = [qsnap EXCEPT ![t] = <<>>]
    /\ qdrop' = [qdrop EXCEPT ![t] = 0]
    /\ qfound' = [qfound EXCEPT ![t] = FALSE]
    /\ UNCHANGED <<maxsize, queue>>
    /\ UNCHANGED <<tvars, rvars>>

\* a consumer's get() on a queue that holds an item
Get(t) ==
    /\ qpc[t] = "idle"
    /\ queue # <<>>
    /\ queue' = QGet(queue)
    /\ UNCHANGED <<maxsize, qpc, qitem, qmode, qsnap, qdrop, qfound>>
    /\ UNCHANGED <<tvars, rvars>>

\* ---------------------------------------------------------- specifications

vars == <<tvars, rvars, qvars>>

\* the parts a specification leaves alone
TimerParked == TimerInitWith(0, START_TIME, 0)
RoundParked == RoundInitWith(START_TIME, SECOND, START_TIME)
QueueParked == QueueInitWith(1)

\* The timer: one CTimer, its thread, and the callers of start() and stop().
Init == TimerInit /\ RoundParked /\ QueueParked

Next == Start \/ StartRefused \/ Stop \/ Run

Spec == Init /\ [][Next]_vars

\* The thread is scheduled, and the sleep and the action end.
FairSpec == Spec /\ WF_vars(Run)

\* truncated_datetime applied to every instant, interval and epoch.
RoundSpecInit == TimerParked /\ RoundInit /\ QueueParked

RoundNext == Truncate \/ TruncateAgain

RoundSpec == RoundSpecInit /\ [][RoundNext]_vars

\* One thread that pushes without blocking and gets.
QSeqInit == TimerParked /\ RoundParked /\ QueueInit

QSeqNext ==
    \/ \E item \in Items : PushCall(1, item, "nowait")
    \/ PutOk(1)
    \/ PutFull(1)
    \/ GetNowait(1)
    \/ PushReturn(1)
    \/ Get(1)

QSeqSpec == QSeqInit /\ [][QSeqNext]_vars

\* Several threads that push, in any mode, and get, on one queue.
QInit == TimerParked /\ RoundParked /\ QueueInit

\* the steps of thread t inside a push() call
PushStep(t) == PutOk(t) \/ PutFull(t) \/ GetNowait(t) \/ PushReturn(t)

QNext ==
    \E t \in Threads :
        \/ \E mode \in Modes : PushCallAmong(t, mode)
        \/ PutOk(t)
        \/ PutFull(t)
        \/ GetNowait(t)
        \/ PushReturn(t)
        \/ Get(t)

QSpec == QInit /\ [][QNext]_vars

\* Every thread inside a push() call is scheduled.
QFairSpec == QSpec /\ \A t \in Threads : WF_vars(PushStep(t))

\* ------------------------------------------------------------------ claims

\* C1: a timer with a finite budget N >= 1 that is started and never stopped,
\* and whose run() is not ended by an exception, invokes do() exactly N times
\* and then stops; it never invokes do() an (N+1)-th time.
C1_ExactlyBudget ==
    /\ [](budget # inf => invoked <= budget)
    /\ []((state = "Stopped" /\ budget # inf /\ budget >= 1 /\ ~stop_flag /\ died = "")
            => invoked = budget)
    /\ ((state = "Running" /\ budget # inf) ~> (state = "Stopped"))

C1_Witness ==
    state = "Stopped" /\ budget = MaxIter /\ ~stop_flag /\ died = "" /\ invoked = MaxIter

\* C2, as claimed: when stop() was called before the loop wakes from a cycle's
\* sleep, the action of that cycle is not invoked.
C2_SkipsActionAfterWake == (stop_wake >= 0 /\ interval > 0) => invoked <= stop_wake

\* C2, amended: the flag is looked at only after the action has returned.  When
\* stop() was called before the loop wakes from a cycle's sleep, the action of
\* that cycle is still invoked, and once it has returned the timer stops
\* without beginning another cycle.
C2_StopsAfterAction ==
    stop_wake >= 0 =>
        /\ pc \in {"do", "doing", "check", "test", "done"}
        /\ counter <= stop_wake + 1
        /\ invoked <= stop_wake + 1
        /\ (pc \in {"doing", "check", "test"} => invoked = stop_wake + 1)
        /\ (pc = "done" /\ died = "" => invoked = stop_wake + 1 /\ counter = stop_wake + 1)
        /\ (pc = "test" => iterations = 0)

C2_Witness ==
    /\ stop_wake >= 1 /\ state = "Stopped" /\ died = ""
    /\ invoked = stop_wake + 1 /\ budget = inf

\* C3: when stop() is called before any cycle has completed (before start()
\* included), the timer invokes do() at most once, whatever the budget, and
\* the loop test after the first cycle ends the loop.
C3_StopBeforeFirstCycle ==
    stop_early =>
        /\ invoked <= 1
        /\ counter <= 1
        /\ (pc = "test" /\ counter = 1 => iterations = 0)
        /\ (pc = "done" => state = "Stopped")

C3_Witness ==
    stop_early /\ state = "Stopped" /\ invoked = 1 /\ budget = inf /\ died = ""

\* e + k * d for the largest k that keeps it at or before t
GridFloor(t, d, e) == e + ((t - e) \div d) * d

\* C4, as claimed: for every instant, positive interval and epoch,
\* truncated_datetime returns the latest grid point that is not later than
\* the instant.
C4_LatestGridPoint ==
    (rpc = "done" /\ rdelta > 0) =>
        (rres.ok /\ rres.val = GridFloor(rdt, rdelta, rstart))

\* C5: start() spawns a loop only from Idle; a later start(), on a Running or
\* a Stopped timer, raises and spawns nothing; Stopped is terminal and at
\* most one loop ever runs.
C5_StartOnce ==
    /\ [](spawned <= 1)
    /\ [](start_error => spawned = 1)
    /\ [][spawned' # spawned => (state = "Idle" /\ state' = "Running")]_vars
    /\ [][state = "Stopped" => state' = "Stopped"]_vars
    /\ [][state = "Running" => state' # "Idle"]_vars

C5_Witness == start_error /\ state = "Stopped" /\ spawned = 1

\* C6, as claimed: an action that raises does not end the loop; the loop goes
\* on until the budget is exhausted or stop is observed.
C6_FailureDoesNotEndLoop ==
    (state = "Stopped" /\ died = "ActionFailure" /\ interval > 0) =>
        (stop_flag \/ (budget # inf /\ invoked >= budget))

\* C7, as claimed: no timer with a zero or negative interval is ever
\* constructed, so none is ever started.
C7_NoNonPositiveInterval == state # "Idle" => interval > 0

\* C8: push_nowait by a single thread on a queue of capacity maxsize >= 1 never
\* waits and always queues the item; with a free slot nothing is removed, on a
\* full queue exactly the oldest item is.
C8_PushNowait ==
    /\ qpc[1] = "put" => ENABLED (PutOk(1) \/ PutFull(1))
    /\ qpc[1] = "get" => ENABLED GetNowait(1)
    /\ qpc[1] = "ret" =>
          IF Len(qsnap[1]) < maxsize
          THEN queue = Append(qsnap[1], qitem[1]) /\ qdrop[1] = 0
          ELSE queue = Append(Tail(qsnap[1]), qitem[1]) /\ qdrop[1] = 1

C8_Witness ==
    /\ qpc[1] = "ret" /\ maxsize = MaxSize /\ Len(qsnap[1]) = maxsize /\ qdrop[1] = 1
    /\ qsnap[1][1] # qsnap[1][maxsize]

\* C9: at most one do() is in progress at any time, and the clock is read and
\* the sleep computed only when every do() begun so far has returned.
C9_NoOverlap ==
    /\ active <= 1
    /\ spawned <= 1
    /\ (pc \in {"test", "now", "sleep", "do"} => active = 0 /\ invoked = counter)

C9_Witness == pc = "sleep" /\ counter >= 1 /\ invoked = counter

\* C10: once stop() has been called on a Running timer the timer reaches
\* Stopped, with an unbounded budget too, and at most one cycle begins after
\* the call.
C10_StopTerminates ==
    /\ [](after_stop <= 1)
    /\ ((state = "Running" /\ stop_flag) ~> (state = "Stopped"))

C10_Witness ==
    state = "Stopped" /\ stop_flag /\ budget = inf /\ invoked >= 2 /\ died = ""

\* C11, as claimed: in every cycle of a timer with a positive interval the
\* deadline, now + delta, is the earliest grid point strictly later than the
\* clock value read in that cycle, and the sleep lasts wait = deadline - now,
\* which is more than 0 and at most the interval.
C11_WaitToNextGridPoint ==
    (state = "Running" /\ pc = "do" /\ interval > 0) =>
        /\ now + delta = GridFloor(now, interval, epoch) + interval
        /\ wait = delta
        /\ wait > 0 /\ wait <= interval

\* C12, as claimed: when the clock has passed a whole interval or more since
\* the deadline of the cycle before (the action was slow), the deadline of this
\* cycle is the first grid point strictly after the clock value read in this
\* cycle, and no action was invoked for the grid points in between.
C12_DeadlineFromFreshClock ==
    (state = "Running" /\ pc \in {"sleep", "do"} /\ passed /\ interval > 0) =>
        /\ now + delta = GridFloor(now, interval, epoch) + interval
        /\ now + delta > now
        /\ invoked = counter

\* C13, as claimed: truncated_datetime is idempotent: for every instant,
\* positive interval and epoch, applying it to its own result returns that
\* result.
C13_Idempotent ==
    (rpc = "again" /\ rdelta > 0) => (rres2.ok /\ rres2.val = rres.val)

\* C14: a step that sets the stop flag, and every stop() call, leaves the
\* iterations field, the interval, the rounder with its epoch, the counter and
\* the position of the loop as they are; the iterations field is written only
\* by the loop's own end-of-cycle check, which can only set it to 0; nothing
\* changes the interval or the epoch after construction.
C14_StopFrame ==
    /\ [][(stop_flag' # stop_flag \/ Stop) =>
             /\ stop_flag'
             /\ UNCHANGED <<iterations, interval, rounder, epoch, budget, counter,
                            state, pc, now, delta, invoked, active>>]_vars
    /\ [][iterations' # iterations =>
             /\ state = "Running" /\ pc = "check" /\ pc' = "test"
             /\ stop_flag /\ iterations' = 0]_vars
    /\ [][UNCHANGED <<interval, rounder, epoch, budget>>]_vars

C14_Witness ==
    /\ state = "Running" /\ pc = "sleep" /\ stop_flag
    /\ counter >= 1 /\ iterations = budget /\ budget = MaxIter

\* C15: a push() with block true and no timeout never gets Queue.Full and
\* never removes an item: on a full queue it waits, with no step of its own,
\* until another thread has taken an item out, and its only step then is to
\* queue its item behind the items that are there.
C15_BlockingPushKeepsItems ==
    /\ [](\A t \in Threads : (qmode[t] = "block" /\ qpc[t] # "idle") =>
             /\ qpc[t] \in {"put", "ret"}
             /\ qdrop[t] = 0
             /\ (qpc[t] = "put" => (ENABLED PushStep(t) <=> ~Full(queue, maxsize))))
    /\ [][\A t \in Threads : (qmode[t] = "block" /\ qpc[t] = "put" /\ qpc'[t] # "put") =>
             /\ qpc'[t] = "ret"
             /\ queue' = Append(queue, qitem[t])]_vars

C15_Witness ==
    \E t \in Threads :
        /\ qmode[t] = "block" /\ qpc[t] = "ret" /\ qfound[t] /\ qdrop[t] = 0
        /\ maxsize = MaxSize /\ Len(queue) = maxsize
        /\ queue[maxsize] = qitem[t]

\* C16: whenever stop() is called on a timer, during its sleep, during its
\* action, between its end-of-cycle check and its next loop test, or before
\* it is started, at most one do() call begins after stop() has returned.
C16_OneActionAfterStop == stop_invoked <= 1

C16_Witness ==
    /\ state = "Stopped" /\ died = "" /\ budget = inf
    /\ after_stop = 1 /\ stop_invoked = 1 /\ invoked >= 2

\* C17: in every reachable state, whatever stop() calls are interleaved with
\* the loop, a timer with a finite budget has begun at most that many do()
\* calls; the iterations field is the budget or 0.
C17_InvokedWithinBudget ==
    budget # inf =>
        /\ invoked <= budget
        /\ counter <= invoked
        /\ iterations \in {0, budget}

C17_Witness ==
    /\ budget = MaxIter /\ invoked = budget /\ stop_flag
    /\ state = "Running" /\ pc = "doing" /\ iterations = budget

\* C18, as claimed: when several threads push without blocking on the same
\* queue, a push_nowait call removes at most one item before its own item is
\* queued.
C18_RemovesAtMostOne ==
    \A t \in Threads : (qmode[t] = "nowait" /\ qpc[t] # "idle") => qdrop[t] <= 1

\* C19: a timer constructed with iterations = 0 and started ends without
\* reading the clock, sleeping or calling do(), whether or not stop() is
\* called, and whatever its interval.
C19_ZeroBudget ==
    /\ [](budget = 0 =>
             /\ pc \in {"idle", "test", "done"}
             /\ invoked = 0 /\ counter = 0 /\ died = ""
             /\ now = START_TIME /\ delta = 0 /\ wait = 0)
    /\ ((budget = 0 /\ state = "Running") ~> (state = "Stopped"))

C19_Witness == budget = 0 /\ state = "Stopped" /\ stop_flag /\ invoked = 0 /\ interval > 0

\* C20, as claimed: with every thread inside a push() call scheduled fairly,
\* a push_nowait call returns with its item queued, also when other threads
\* push to and get from the same queue.
C20_PushNowaitReturns ==
    \A t \in Threads :
        (qmode[t] = "nowait" /\ qpc[t] = "put") ~> (qpc[t] = "ret")

====
